---- MODULE Spec2Model ----
(***************************************************************************)
(* Model of the chain set registry (core/chains/evm/chain_set.go), of the   *)
(* direct-request listener (core/services/directrequestocr/drlistener.go)  *)
(* and of the send-only node's verify loop (package client), with the      *)
(* mailbox and the output decoder taken on their own.                      *)
(***************************************************************************)
EXTENDS Integers, Sequences, FiniteSets, TLC

VARIABLES
    \* ---- chain set (chain_set.go) ----
    csState,    \* "absent": no chainSet value; "nil": chainSet whose chains map is nil; "map"
    chains,     \* chainSet.chains: key string -> chain handle
    defaultID,  \* chainSet.defaultID (NilID when nil)
    objs,       \* every *chain ever constructed, by handle: [id, started, closed]
    last,       \* the last chain-set operation: its arguments, what it returned,
                \* the chain calls it made and whether it wrote the persisted row
    \* ---- direct-request listener (drlistener.go) ----
    lstate,       \* StartStopOnce: "unstarted", "started", "stopping" (in Close), "stopped"
    pluginConfig, \* RequestTimeoutSec, RequestTimeoutCheckFrequencySec, RequestTimeoutBatchLookupSize
    chStop,       \* TRUE once close(l.chStop) ran (serviceCancel runs just before it)
    subscribed,   \* registered with the log broadcaster
    mbQueue,      \* mbOracleEvents: the records held, oldest first
    mbNotify,     \* mbOracleEvents.Notify(): a token waits in the channel
    mbClosed,     \* mbOracleEvents.Close() ran
    wg,           \* shutdownWaitGroup
    pcDispatch,   \* processOracleEvents: "off", "select", "drain", "check", "done"
    cur,          \* the record processOracleEvents retrieved (<<>> when none)
    pcSweeper,    \* timeoutRequests: "off", "init", "wait", "done"
    pcWaiter,     \* the goroutine waiting on chStop to unsubscribe: "off", "wait", "done"
    tasks,        \* the running handleOracleRequest / handleOracleResponse goroutines
    consumed,     \* the logs the broadcaster holds as consumed
    requests,     \* the plugin ORM's rows: request id -> state
    aged,         \* the requests received at or before the sweeper's cutoff
    hist,         \* counts of what happened, per log
    \* ---- send-only node (package client) ----
    nodeState,    \* s.state, a SendOnlyNodeState
    nodeLife,     \* StartStopOnce: "unstarted", "started", "stopping" (in Close), "stopped"
    nodeChStop,   \* TRUE once close(s.chStop) ran
    pcVerify,     \* verifyLoop: "off", "select", "query" (in sender.ChainID), "done"
    nodeHist,     \* the queries verifyLoop made: how many failed, what the last one
                  \* reported, whether the node was started then
    \* ---- a mailbox on its own ----
    boxCap,       \* its capacity
    box,          \* the records it holds, oldest first
    boxLog,       \* what was delivered, evicted and retrieved, and the overflow signals
    \* ---- ExtractRawBytes on its own ----
    rawInput,     \* the bytes handed to ExtractRawBytes, one character each
    rawOutput,    \* what it returned, <<>> before the call
    \* ---- Configure calls running side by side ----
    inflight      \* per caller, the call that has read the registry and not yet
                  \* acted on what it read

csVars == <<csState, chains, defaultID, objs, last>>

lsVars == <<lstate, pluginConfig, chStop, subscribed, mbQueue, mbNotify, mbClosed, wg,
            pcDispatch, cur, pcSweeper, pcWaiter, tasks, consumed, requests, aged, hist>>

soVars == <<nodeState, nodeLife, nodeChStop, pcVerify, nodeHist>>

boxVars == <<boxCap, box, boxLog>>

rawVars == <<rawInput, rawOutput>>

cfVars == <<inflight>>

auxVars == <<boxVars, rawVars, cfVars>>

vars == <<csVars, lsVars, soVars, auxVars>>

-----------------------------------------------------------------------------
(* Bounds *)

\* longest list of chain configurations handed to the load
MaxLoad == 3
\* most *chain values constructed in one behaviour
MaxObjs == 2

\* network identifiers used as inputs
ChainIDs == {5, 42}

-----------------------------------------------------------------------------
(* Values *)

\* a nil *big.Int
NilID == -1
\* a nil *chain
NilChain == 0

Digit(d) ==
    CASE d = 0 -> "0" [] d = 1 -> "1" [] d = 2 -> "2" [] d = 3 -> "3"
      [] d = 4 -> "4" [] d = 5 -> "5" [] d = 6 -> "6" [] d = 7 -> "7"
      [] d = 8 -> "8" [] d = 9 -> "9"

\* big.Int.String(): the decimal digits of a non-negative identifier
RECURSIVE BigString(_)
BigString(n) ==
    IF n < 10 THEN <<Digit(n)>>
    ELSE Append(BigString(n \div 10), Digit(n % 10))

EmptyMap == [k \in {} |-> NilChain]

MapPut(m, k, v) == [x \in (DOMAIN m) \cup {k} |-> IF x = k THEN v ELSE m[x]]

MapDelete(m, k) == [x \in (DOMAIN m) \ {k} |-> m[x]]

\* An error value is the sequence of the errors it contains (multierr.Errors):
\* nil is the empty sequence, a plain error a sequence of one <<kind, arg>>.
NilErr == <<>>

Err(kind, arg) == <<<<kind, arg>>>>

\* multierr.Combine(err, e): a nil e adds nothing
Combine(err, e) == err \o e

\* the record every operation leaves in last
NoOp ==
    [op |-> "none", id |-> NilID, enabled |-> FALSE, pre |-> NilChain,
     res |-> "ok", err |-> NilErr, chain |-> NilChain, made |-> <<>>,
     calls |-> <<>>, input |-> <<>>, before |-> EmptyMap, heap |-> <<>>,
     stored |-> FALSE, ctorErr |-> NilErr, failed |-> {}]

-----------------------------------------------------------------------------
(* Chain construction: newChain is not part of the sources at hand; a chain *)
(* configuration carries the outcome its node list leads to.                *)

NodeShapes == {"primary", "noprimary", "bad"}

ErrNoPrimaryNode == Err("ErrNoPrimaryNode", NilID)

newChain(dbchain, os) ==
    CASE dbchain.nodes = "primary" ->
            [chain |-> Len(os) + 1, err |-> NilErr,
             objs |-> Append(os, [id |-> dbchain.id, started |-> FALSE, closed |-> FALSE])]
      [] dbchain.nodes = "noprimary" ->
            [chain |-> NilChain, err |-> ErrNoPrimaryNode, objs |-> os]
      [] OTHER ->
            [chain |-> NilChain, err |-> Err("newChain", dbchain.id), objs |-> os]

-----------------------------------------------------------------------------
(* Load *)

\* mutant of LoadErr: ErrNoPrimaryNode is aggregated like any other failure
LoadErrCountsNoPrimary(err, err2) == Combine(err, err2)

\* a failed construction during the load: ErrNoPrimaryNode is only logged, every
\* other error joins the aggregate
LoadErr(err, err2) ==
    IF err2 = ErrNoPrimaryNode THEN err ELSE Combine(err, err2)

\* a load that lets a later chain replace an earlier one of the same identifier
RECURSIVE NewChainSetLoopOverwrites(_, _, _, _, _)
NewChainSetLoopOverwrites(dbchains, i, m, os, err) ==
    IF i > Len(dbchains)
    THEN [cll |-> "map", chains |-> m, objs |-> os, err |-> err,
          made |-> [h \in 1..Len(os) |-> h]]
    ELSE LET cid == BigString(dbchains[i].id)
             r == newChain(dbchains[i], os)
         IN IF r.err # NilErr
            THEN NewChainSetLoopOverwrites(dbchains, i + 1, m, os, LoadErr(err, r.err))
            ELSE NewChainSetLoopOverwrites(dbchains, i + 1, MapPut(m, cid, r.chain), r.objs, err)

RECURSIVE NewChainSetLoop(_, _, _, _, _)
NewChainSetLoop(dbchains, i, m, os, err) ==
    IF i > Len(dbchains)
    THEN [cll |-> "map", chains |-> m, objs |-> os, err |-> err,
          made |-> [h \in 1..Len(os) |-> h]]
    ELSE LET cid == BigString(dbchains[i].id)
             r == newChain(dbchains[i], os)
         IN IF r.err # NilErr
            THEN NewChainSetLoop(dbchains, i + 1, m, os, LoadErr(err, r.err))
            ELSE IF cid \in DOMAIN m
                 THEN [cll |-> "absent", chains |-> EmptyMap, objs |-> r.objs,
                       err |-> Err("duplicate", dbchains[i].id),
                       made |-> [h \in 1..Len(r.objs) |-> h]]
                 ELSE NewChainSetLoop(dbchains, i + 1, MapPut(m, cid, r.chain), r.objs, err)

NewChainSet(dbchains) == NewChainSetLoop(dbchains, 1, EmptyMap, <<>>, NilErr)

LoadChainSet(evmDisabled, dbchains) ==
    IF evmDisabled
    THEN [cll |-> "nil", chains |-> EmptyMap, objs |-> <<>>, err |-> NilErr, made |-> <<>>]
    ELSE NewChainSet(dbchains)

-----------------------------------------------------------------------------
(* Lookup *)

ErrNoChains == Err("ErrNoChains", NilID)

\* "no default chain ID specified"
ErrNoDefault == Err("NoDefault", NilID)

ChainCount == IF csState = "map" THEN Cardinality(DOMAIN chains) ELSE 0

\* mutant of Lookup: the exists flag of the map read is ignored
LookupIgnoresExists(id) ==
    IF csState = "map" /\ BigString(id) \in DOMAIN chains
    THEN [chain |-> chains[BigString(id)], err |-> NilErr]
    ELSE [chain |-> NilChain, err |-> NilErr]

\* the map lookup of Get, for a non-nil id
Lookup(id) ==
    IF csState = "map" /\ BigString(id) \in DOMAIN chains
    THEN [chain |-> chains[BigString(id)], err |-> NilErr]
    ELSE [chain |-> NilChain, err |-> Err("NotFound", id)]

\* a Default that takes a default chain that is not registered for no default
DefaultMissingIsNoDefault ==
    IF ChainCount = 0 THEN [chain |-> NilChain, err |-> ErrNoChains]
    ELSE IF defaultID = NilID \/ Lookup(defaultID).chain = NilChain
    THEN [chain |-> NilChain, err |-> ErrNoDefault]
    ELSE Lookup(defaultID)

\* mutant of Default: the default identifier is tested before the chain count
DefaultTestsIDFirst ==
    IF defaultID = NilID THEN [chain |-> NilChain, err |-> ErrNoDefault]
    ELSE IF ChainCount = 0 THEN [chain |-> NilChain, err |-> ErrNoChains]
    ELSE Lookup(defaultID)

Default ==
    IF ChainCount = 0 THEN [chain |-> NilChain, err |-> ErrNoChains]
    ELSE IF defaultID = NilID THEN [chain |-> NilChain, err |-> ErrNoDefault]
    ELSE Lookup(defaultID)

Get(id) == IF id = NilID THEN Default ELSE Lookup(id)

\* Chains(): the registered chains
Chains == IF csState = "map" THEN {chains[k] : k \in DOMAIN chains} ELSE {}

-----------------------------------------------------------------------------
(* Configure *)

\* What the collaborators answer during one Configure call: upd and nodesq say
\* whether UpdateChain and NodesForChain succeed, nodes is the node list's shape,
\* start and close whether the chain's Start and Close succeed. A call returns at
\* the first failure it meets, so the answers with at most one failure cover
\* every outcome.
EnvOf(fault) ==
    [upd |-> fault # "UpdateChain", nodesq |-> fault # "NodesForChain",
     nodes |-> IF fault \in {"noprimary", "bad"} THEN fault ELSE "primary",
     start |-> fault # "Start", close |-> fault # "Close"]

ConfigureEnvs ==
    {EnvOf(f) : f \in {"none", "UpdateChain", "NodesForChain", "noprimary", "bad",
                        "Start", "Close"}}

\* what a Configure call leaves behind when it changes nothing in memory
Untouched(res, err) ==
    [chains |-> chains, objs |-> objs, res |-> res, err |-> err,
     made |-> <<>>, calls |-> <<>>, ctorErr |-> NilErr]

\* mutant of ConfigureDisable: the chain is closed but its key is not deleted
ConfigureDisableKeepsKey(cid, chain, env) ==
    [chains |-> chains,
     objs |-> [objs EXCEPT ![chain].closed = TRUE],
     res |-> IF env.close THEN "ok" ELSE "err",
     err |-> IF env.close THEN NilErr ELSE Err("Close", chain),
     made |-> <<>>, calls |-> <<<<"Close", chain>>>>, ctorErr |-> NilErr]

\* case exists && !enabled: delete the key, then Close the chain found by Get
ConfigureDisable(cid, chain, env) ==
    [chains |-> MapDelete(chains, cid),
     objs |-> [objs EXCEPT ![chain].closed = TRUE],
     res |-> IF env.close THEN "ok" ELSE "err",
     err |-> IF env.close THEN NilErr ELSE Err("Close", chain),
     made |-> <<>>, calls |-> <<<<"Close", chain>>>>, ctorErr |-> NilErr]

\* mutant of ConfigureInsert: the started chain is never put into the map
ConfigureInsertForgets(cid, r, calls) ==
    [chains |-> chains, objs |-> [r.objs EXCEPT ![r.chain].started = TRUE],
     res |-> "ok", err |-> NilErr, made |-> <<r.chain>>, calls |-> calls,
     ctorErr |-> NilErr]

\* mutant of ConfigureInsert: the key is the string of the chain's position
\* among the constructed chains, not of its identifier
ConfigureInsertKeyedByPosition(cid, r, calls) ==
    [chains |-> MapPut(chains, BigString(r.chain), r.chain),
     objs |-> [r.objs EXCEPT ![r.chain].started = TRUE],
     res |-> "ok", err |-> NilErr, made |-> <<r.chain>>, calls |-> calls,
     ctorErr |-> NilErr]

\* cll.chains[cid] = chain, after a successful Start: an entry of a nil map
\* cannot be assigned
ConfigureInsert(cid, r, calls) ==
    IF csState = "nil"
    THEN [chains |-> chains, objs |-> [r.objs EXCEPT ![r.chain].started = TRUE],
          res |-> "panic", err |-> NilErr, made |-> <<r.chain>>, calls |-> calls,
          ctorErr |-> NilErr]
    ELSE [chains |-> MapPut(chains, cid, r.chain),
          objs |-> [r.objs EXCEPT ![r.chain].started = TRUE],
          res |-> "ok", err |-> NilErr, made |-> <<r.chain>>, calls |-> calls,
          ctorErr |-> NilErr]

\* case !exists && enabled: newChain, Start, insert
ConfigureEnable(id, cid, env) ==
    LET r == newChain([id |-> id, nodes |-> env.nodes], objs)
    IN  IF r.err # NilErr /\ r.err # ErrNoPrimaryNode
        THEN [Untouched("err", r.err) EXCEPT !.ctorErr = r.err]
        ELSE IF r.chain = NilChain
        \* ErrNoPrimaryNode is only logged: chain.Start() runs on the nil *chain
        THEN [Untouched("panic", NilErr) EXCEPT !.ctorErr = r.err]
        ELSE IF ~env.start
        THEN [chains |-> chains, objs |-> r.objs, res |-> "err",
              err |-> Err("Start", r.chain), made |-> <<r.chain>>,
              calls |-> <<<<"Start", r.chain>>>>, ctorErr |-> NilErr]
        ELSE ConfigureInsert(cid, r, <<<<"Start", r.chain>>>>)

\* the reconciliation of the registry with the new enabled flag
Reconcile(id, enabled, env) ==
    LET g == Get(id)
        exists == g.err = NilErr
        cid == BigString(id)
    IN  CASE exists /\ ~enabled -> ConfigureDisable(cid, g.chain, env)
          [] ~exists /\ enabled -> ConfigureEnable(id, cid, env)
          [] OTHER -> Untouched("ok", NilErr)

\* mutant of ConfigureCall: the error of NodesForChain is dropped
ConfigureCallDropsNodesErr(id, enabled, env) ==
    IF ~env.upd
    THEN [stored |-> FALSE] @@ Untouched("err", Err("UpdateChain", id))
    ELSE IF ~env.nodesq
    THEN [stored |-> TRUE]
            @@ [Reconcile(id, enabled, env) EXCEPT !.res = "err",
                                                   !.err = Err("NodesForChain", id)]
    ELSE [stored |-> TRUE] @@ Reconcile(id, enabled, env)

\* Configure(id, enabled, config): what it returns and the state it leaves
ConfigureCall(id, enabled, env) ==
    IF ~env.upd
    THEN [stored |-> FALSE] @@ Untouched("err", Err("UpdateChain", id))
    ELSE IF ~env.nodesq
    THEN [stored |-> TRUE] @@ Untouched("err", Err("NodesForChain", id))
    ELSE [stored |-> TRUE] @@ Reconcile(id, enabled, env)

\* a Configure call, while fewer than bound chains were constructed
ConfigureWithin(bound, id, enabled, env) ==
    /\ csState # "absent"
    /\ (enabled /\ Lookup(id).chain = NilChain) => Len(objs) < bound
    /\ LET c == ConfigureCall(id, enabled, env)
       IN  /\ chains' = c.chains
           /\ objs' = c.objs
           /\ last' = [NoOp EXCEPT !.op = "Configure", !.id = id, !.enabled = enabled,
                                   !.pre = Lookup(id).chain, !.before = chains,
                                   !.heap = objs, !.ctorErr = c.ctorErr,
                                   !.res = c.res, !.err = c.err, !.made = c.made,
                                   !.calls = c.calls, !.stored = c.stored]
    /\ UNCHANGED <<csState, defaultID, lsVars, soVars, auxVars>>

Configure(id, enabled, env) == ConfigureWithin(MaxObjs, id, enabled, env)

-----------------------------------------------------------------------------
(* Configure calls side by side: nothing in Configure keeps two calls apart, *)
(* so a call may read the registry (cll.Get) before another call writes it   *)
(* and act on what it read afterwards. The steps of one call are taken as    *)
(* they are written; what the Go runtime makes of two writes to the map at   *)
(* the very same time is left out.                                           *)

\* the goroutines that call Configure
Callers == {1, 2}

Idle == [pc |-> "idle"]

NoCalls == inflight = [c \in Callers |-> Idle]

\* the record a returning Configure call leaves in last
Returned(id, enabled, pre, c) ==
    [NoOp EXCEPT !.op = "Configure", !.id = id, !.enabled = enabled,
                 !.pre = pre, !.before = chains,
                 !.heap = objs, !.ctorErr = c.ctorErr,
                 !.res = c.res, !.err = c.err, !.made = c.made,
                 !.calls = c.calls, !.stored = c.stored]

\* Configure up to the switch: UpdateChain, NodesForChain, cll.Get(id)
ConfigureBegin(c, id, enabled, env) ==
    /\ csState # "absent"
    /\ inflight[c] = Idle
    /\ IF ~env.upd \/ ~env.nodesq
       THEN /\ last' = Returned(id, enabled, Lookup(id).chain, ConfigureCall(id, enabled, env))
            /\ inflight' = inflight
       ELSE /\ inflight' = [inflight EXCEPT ![c] =
                               [pc |-> "switch", id |-> id, enabled |-> enabled,
                                exists |-> Get(id).err = NilErr,
                                chain |-> Get(id).chain]]
            /\ last' = last
    /\ UNCHANGED <<csState, chains, defaultID, objs, boxVars, rawVars, lsVars, soVars>>

\* a switch that enables whether or not the identifier was found
SwitchEnablesOverExisting(f, env) ==
    CASE f.enabled -> ConfigureEnable(f.id, BigString(f.id), env)
      [] f.exists /\ ~f.enabled -> ConfigureDisable(BigString(f.id), f.chain, env)
      [] OTHER -> Untouched("ok", NilErr)

\* the switch of a call, on what it read before
Switch(f, env) ==
    CASE f.exists /\ ~f.enabled -> ConfigureDisable(BigString(f.id), f.chain, env)
      [] ~f.exists /\ f.enabled -> ConfigureEnable(f.id, BigString(f.id), env)
      [] OTHER -> Untouched("ok", NilErr)

\* Configure from the switch on; env: what newChain, Start and Close answer
ConfigureFinish(c, env) ==
    /\ inflight[c] # Idle
    /\ env.upd /\ env.nodesq
    /\ (~inflight[c].exists /\ inflight[c].enabled) => Len(objs) < MaxObjs
    /\ LET f == inflight[c]
           r == [stored |-> TRUE] @@ Switch(f, env)
       IN  /\ chains' = r.chains
           /\ objs' = r.objs
           /\ last' = Returned(f.id, f.enabled, f.chain, r)
    /\ inflight' = [inflight EXCEPT ![c] = Idle]
    /\ UNCHANGED <<csState, defaultID, boxVars, rawVars, lsVars, soVars>>

-----------------------------------------------------------------------------
(* Get and Default as calls *)

GetCall(id) ==
    /\ csState # "absent"
    /\ last' = [NoOp EXCEPT !.op = "Get", !.id = id, !.before = chains,
                            !.chain = Get(id).chain, !.err = Get(id).err,
                            !.res = IF Get(id).err = NilErr THEN "ok" ELSE "err"]
    /\ UNCHANGED <<csState, chains, defaultID, objs, lsVars, soVars, auxVars>>

DefaultCall ==
    /\ csState # "absent"
    /\ last' = [NoOp EXCEPT !.op = "Default", !.before = chains,
                            !.chain = Default.chain, !.err = Default.err,
                            !.res = IF Default.err = NilErr THEN "ok" ELSE "err"]
    /\ UNCHANGED <<csState, chains, defaultID, objs, lsVars, soVars, auxVars>>

-----------------------------------------------------------------------------
(* Start, Close, Healthy, Ready *)

\* the orders in which ranging over the map can yield the chains of S
Orders(S) ==
    {o \in [1..Cardinality(S) -> S] : \A i, j \in 1..Cardinality(S) : o[i] = o[j] => i = j}

\* mutant of ForEachChain: the loop returns at the first error
RECURSIVE ForEachChainStopsAtError(_, _, _, _, _, _)
ForEachChainStopsAtError(what, order, fails, i, calls, err) ==
    IF i > Len(order) \/ err # NilErr
    THEN [calls |-> calls, err |-> err]
    ELSE ForEachChainStopsAtError(what, order, fails, i + 1,
                                  Append(calls, <<what, order[i]>>),
                                  Combine(err, IF order[i] \in fails
                                               THEN Err(what, order[i]) ELSE NilErr))

\* for _, c := range cll.Chains() { err = multierr.Combine(err, c.<what>()) }
\* fails: the chains whose operation returns an error
RECURSIVE ForEachChain(_, _, _, _, _, _)
ForEachChain(what, order, fails, i, calls, err) ==
    IF i > Len(order)
    THEN [calls |-> calls, err |-> err]
    ELSE ForEachChain(what, order, fails, i + 1,
                      Append(calls, <<what, order[i]>>),
                      Combine(err, IF order[i] \in fails
                                   THEN Err(what, order[i]) ELSE NilErr))

Lifecycle(what, order, fails) ==
    /\ csState # "absent"
    /\ LET r == ForEachChain(what, order, fails, 1, <<>>, NilErr)
       IN  /\ last' = [NoOp EXCEPT !.op = what, !.before = chains, !.calls = r.calls,
                                   !.err = r.err, !.failed = fails,
                                   !.res = IF r.err = NilErr THEN "ok" ELSE "err"]
           /\ objs' = [h \in DOMAIN objs |->
                         IF \E i \in 1..Len(r.calls) : r.calls[i] = <<what, h>>
                         THEN CASE what = "Start" /\ h \notin fails ->
                                        [objs[h] EXCEPT !.started = TRUE]
                                [] what = "Close" -> [objs[h] EXCEPT !.closed = TRUE]
                                [] OTHER -> objs[h]
                         ELSE objs[h]]
    /\ UNCHANGED <<csState, chains, defaultID, lsVars, soVars, auxVars>>

ChainSetStart == \E o \in Orders(Chains), f \in SUBSET Chains : Lifecycle("Start", o, f)

ChainSetClose == \E o \in Orders(Chains), f \in SUBSET Chains : Lifecycle("Close", o, f)

ChainSetHealthy == \E o \in Orders(Chains), f \in SUBSET Chains : Lifecycle("Healthy", o, f)

ChainSetReady == \E o \in Orders(Chains), f \in SUBSET Chains : Lifecycle("Ready", o, f)


-----------------------------------------------------------------------------
(* The send-only node: its health state and its verify loop *)

\* most failed queries (error or wrong identity) the endpoint answers while the
\* node is not being closed
MaxFaults == 3

SendOnlyNodeStates == {"Undialed", "Dialed", "InvalidChainID", "Alive", "Unusable", "Closed"}

\* what sender.ChainID reports: an error, another identity, the expected one
Reports == {"err", "mismatch", "match"}

NoQuery == [faults |-> 0, invalids |-> 0, reported |-> "none", wasStarted |-> FALSE]

\* a node as constructed: virgin, not started, no verify loop
NewSendOnlyNode ==
    /\ nodeState = "Undialed"
    /\ nodeLife = "unstarted"
    /\ nodeChStop = FALSE
    /\ pcVerify = "off"
    /\ nodeHist = NoQuery

\* setState: the assignment, whatever the state was
setState(state) == state

\* StartStopOnce.IfStarted: f runs only while the node is started, and no
\* StopOnce runs beside it
IfStarted(life) == life = "started"

\* Start: the dial fails (Unusable), or the first identity check passes (Alive),
\* or it fails and the verify loop is spawned
SendOnlyNodeStart(dialed, verified) ==
    /\ nodeLife = "unstarted"
    /\ nodeLife' = "started"
    /\ nodeState' = IF ~dialed THEN setState("Unusable")
                    ELSE IF verified THEN setState("Alive")
                    ELSE setState("InvalidChainID")
    /\ pcVerify' = IF dialed /\ ~verified THEN "select" ELSE "off"
    /\ UNCHANGED <<nodeChStop, nodeHist, csVars, lsVars, auxVars>>

\* Close, first half: the lifecycle leaves started and chStop is closed
SendOnlyNodeClose ==
    /\ nodeLife = "started"
    /\ nodeLife' = "stopping"
    /\ nodeChStop' = TRUE
    /\ UNCHANGED <<nodeState, pcVerify, nodeHist, csVars, lsVars, auxVars>>

\* Close, second half: the state becomes Closed; whether Close waits for the
\* verify loop first is left open
SendOnlyNodeClosed ==
    /\ nodeLife = "stopping"
    /\ nodeLife' = "stopped"
    /\ nodeState' = setState("Closed")
    /\ UNCHANGED <<nodeChStop, pcVerify, nodeHist, csVars, lsVars, auxVars>>

\* verifyLoop, case <-time.After(backoff.Duration()): the query starts
VerifyTimer ==
    /\ pcVerify = "select"
    /\ pcVerify' = "query"
    /\ UNCHANGED <<nodeState, nodeLife, nodeChStop, nodeHist, csVars, lsVars, auxVars>>

\* a loop that has no case for chStop
VerifyStopNever == FALSE /\ UNCHANGED vars

\* verifyLoop, case <-s.chStop: return
VerifyStop ==
    /\ pcVerify = "select"
    /\ nodeChStop
    /\ pcVerify' = "done"
    /\ UNCHANGED <<nodeState, nodeLife, nodeChStop, nodeHist, csVars, lsVars, auxVars>>

\* a loop that sets the state whether the node is started or not
VerifyOutcomeUnguarded(reported, started, state) ==
    CASE reported = "err" -> [state |-> state, pc |-> "select"]
      [] reported = "mismatch" -> [state |-> setState("InvalidChainID"), pc |-> "select"]
      [] OTHER -> [state |-> setState("Alive"), pc |-> "done"]

\* a loop that goes on after it has set Alive
VerifyOutcomeGoesOn(reported, started, state) ==
    CASE reported = "err" -> [state |-> state, pc |-> "select"]
      [] reported = "mismatch" ->
            IF started THEN [state |-> setState("InvalidChainID"), pc |-> "select"]
            ELSE [state |-> state, pc |-> "done"]
      [] OTHER ->
            IF started THEN [state |-> setState("Alive"), pc |-> "select"]
            ELSE [state |-> state, pc |-> "done"]

\* a loop that retries after a wrong identity although the node is not started
VerifyOutcomeRetriesUnstarted(reported, started, state) ==
    CASE reported = "err" -> [state |-> state, pc |-> "select"]
      [] reported = "mismatch" ->
            IF started THEN [state |-> setState("InvalidChainID"), pc |-> "select"]
            ELSE [state |-> state, pc |-> "select"]
      [] OTHER ->
            IF started THEN [state |-> setState("Alive"), pc |-> "done"]
            ELSE [state |-> state, pc |-> "done"]

\* a loop that gives up at the first query error
VerifyOutcomeGivesUp(reported, started, state) ==
    CASE reported = "err" -> [state |-> state, pc |-> "done"]
      [] reported = "mismatch" ->
            IF started THEN [state |-> setState("InvalidChainID"), pc |-> "select"]
            ELSE [state |-> state, pc |-> "done"]
      [] OTHER ->
            IF started THEN [state |-> setState("Alive"), pc |-> "done"]
            ELSE [state |-> state, pc |-> "done"]

\* verifyLoop, what follows the query: the state s.state takes and where the
\* loop goes ("select": continue, "done": return); started is what IfStarted
\* found
VerifyOutcome(reported, started, state) ==
    CASE reported = "err" -> [state |-> state, pc |-> "select"]
      [] reported = "mismatch" ->
            IF started THEN [state |-> setState("InvalidChainID"), pc |-> "select"]
            ELSE [state |-> state, pc |-> "done"]
      [] OTHER ->
            IF started THEN [state |-> setState("Alive"), pc |-> "done"]
            ELSE [state |-> state, pc |-> "done"]

\* verifyLoop, the query returns. The endpoint fails at most MaxFaults times
\* while the node is not being closed, and as often as it likes afterwards.
VerifyQuery(reported) ==
    /\ pcVerify = "query"
    /\ reported # "match" => (nodeHist.faults < MaxFaults \/ nodeChStop)
    /\ LET started == IfStarted(nodeLife)
           r == VerifyOutcome(reported, started, nodeState)
       IN  /\ nodeState' = r.state
           /\ pcVerify' = r.pc
           /\ nodeHist' = [faults |-> IF reported # "match" /\ ~nodeChStop
                                       THEN nodeHist.faults + 1 ELSE nodeHist.faults,
                           invalids |-> IF reported = "mismatch" /\ started /\ ~nodeChStop
                                        THEN nodeHist.invalids + 1 ELSE nodeHist.invalids,
                           reported |-> reported,
                           wasStarted |-> started]
    /\ UNCHANGED <<nodeLife, nodeChStop, csVars, lsVars, auxVars>>

SendOnlyNodeStartOp == \E dialed \in BOOLEAN, verified \in BOOLEAN : SendOnlyNodeStart(dialed, verified)

VerifyQueryOp == \E reported \in Reports : VerifyQuery(reported)

verifyLoop == VerifyTimer \/ VerifyStop \/ VerifyQueryOp

-----------------------------------------------------------------------------
(* The direct-request listener *)

\* most HandleLog calls in one behaviour
MaxDeliveries == 2
\* the capacity the mailbox is modelled with
MailboxCapacity == 2
\* RequestTimeoutBatchLookupSize when the sweeper is configured
BatchSize == 1

\* the request identifiers the logs carry
RequestIDs == {1}

\* the decoded logs: an OracleRequest, an OracleResponse, and one of another type
Logs == [kind : {"OracleRequest", "OracleResponse", "Other"}, req : RequestIDs]

NoLog == <<>>

PluginConfigs ==
    {[timeoutSec |-> 1, freqSec |-> 1, batchSize |-> BatchSize],
     [timeoutSec |-> 0, freqSec |-> 1, batchSize |-> BatchSize]}

ZeroCounts == [lb \in Logs |-> 0]

Bump(f, lb) == [f EXCEPT ![lb] = @ + 1]

\* the listener as constructed, over one of the configurations and one of the
\* request tables
NewDRListenerOver(configs, tables) ==
    /\ lstate = "unstarted"
    /\ pluginConfig \in configs
    /\ chStop = FALSE
    /\ subscribed = FALSE
    /\ mbQueue = <<>>
    /\ mbNotify = FALSE
    /\ mbClosed = FALSE
    /\ wg = 0
    /\ pcDispatch = "off"
    /\ cur = NoLog
    /\ pcSweeper = "off"
    /\ pcWaiter = "off"
    /\ tasks = {}
    /\ consumed = {}
    /\ requests \in tables
    /\ aged = {}
    /\ hist = [delivered |-> ZeroCounts, evicted |-> ZeroCounts, retrieved |-> ZeroCounts,
               skipped |-> ZeroCounts, spawned |-> ZeroCounts, creates |-> ZeroCounts,
               runs |-> ZeroCounts, committed |-> ZeroCounts,
               defect |-> [lb \in Logs |-> ""], errorOut |-> [lb \in Logs |-> ""],
               unsaved |-> FALSE, envFault |-> FALSE]

NoRequests == [r \in {} |-> "pending"]

NewDRListener == NewDRListenerOver(PluginConfigs, {NoRequests})

\* Start: register with the broadcaster and start the three goroutines
DRListenerStart ==
    /\ lstate = "unstarted"
    /\ lstate' = "started"
    /\ subscribed' = TRUE
    /\ wg' = 3
    /\ pcDispatch' = "select"
    /\ pcSweeper' = "init"
    /\ pcWaiter' = "wait"
    /\ UNCHANGED <<csVars, soVars, auxVars, pluginConfig, chStop, mbQueue, mbNotify, mbClosed, cur, tasks,
                   consumed, requests, aged, hist>>

\* Close, up to the wait: serviceCancel(), close(chStop)
DRListenerClose ==
    /\ lstate = "started"
    /\ lstate' = "stopping"
    /\ chStop' = TRUE
    /\ UNCHANGED <<csVars, soVars, auxVars, pluginConfig, subscribed, mbQueue, mbNotify, mbClosed, wg, pcDispatch,
                   cur, pcSweeper, pcWaiter, tasks, consumed, requests, aged, hist>>

\* a Close that closes the mailbox without waiting
DRListenerCloseReturnNoWait ==
    /\ lstate = "stopping"
    /\ lstate' = "stopped"
    /\ mbClosed' = TRUE
    /\ UNCHANGED <<csVars, soVars, auxVars, pluginConfig, chStop, subscribed, mbQueue, mbNotify, wg, pcDispatch,
                   cur, pcSweeper, pcWaiter, tasks, consumed, requests, aged, hist>>

\* Close, from the wait on: shutdownWaitGroup.Wait() returns, then mbOracleEvents.Close()
DRListenerCloseReturn ==
    /\ lstate = "stopping"
    /\ wg = 0
    /\ lstate' = "stopped"
    /\ mbClosed' = TRUE
    /\ UNCHANGED <<csVars, soVars, auxVars, pluginConfig, chStop, subscribed, mbQueue, mbNotify, wg, pcDispatch,
                   cur, pcSweeper, pcWaiter, tasks, consumed, requests, aged, hist>>

\* the goroutine of Start: <-chStop, unsubscribeLogs(), Done()
WaiterUnsubscribe ==
    /\ pcWaiter = "wait"
    /\ chStop
    /\ pcWaiter' = "done"
    /\ subscribed' = FALSE
    /\ wg' = wg - 1
    /\ UNCHANGED <<csVars, soVars, auxVars, lstate, pluginConfig, chStop, mbQueue, mbNotify, mbClosed, pcDispatch,
                   cur, pcSweeper, tasks, consumed, requests, aged, hist>>

-----------------------------------------------------------------------------
(* The mailbox (utils.Mailbox lives in another package) *)

\* a mailbox that turns the new record away when it is full
DeliverAtRejectsNewest(cap, queue, lb) ==
    IF Len(queue) >= cap
    THEN [queue |-> queue, wasOverCapacity |-> TRUE, dropped |-> lb]
    ELSE [queue |-> Append(queue, lb), wasOverCapacity |-> FALSE, dropped |-> NoLog]

\* Deliver to a mailbox of capacity cap: the new record is kept; at capacity
\* the oldest one is dropped
DeliverAt(cap, queue, lb) ==
    IF Len(queue) >= cap
    THEN [queue |-> Append(Tail(queue), lb), wasOverCapacity |-> TRUE, dropped |-> Head(queue)]
    ELSE [queue |-> Append(queue, lb), wasOverCapacity |-> FALSE, dropped |-> NoLog]

Deliver(queue, lb) == DeliverAt(MailboxCapacity, queue, lb)

\* a mailbox that hands out the newest record
RetrieveNewest(queue) ==
    IF queue = <<>>
    THEN [queue |-> queue, lb |-> NoLog, exists |-> FALSE]
    ELSE [queue |-> SubSeq(queue, 1, Len(queue) - 1), lb |-> queue[Len(queue)], exists |-> TRUE]

\* Retrieve: the oldest record, if any
Retrieve(queue) ==
    IF queue = <<>>
    THEN [queue |-> queue, lb |-> NoLog, exists |-> FALSE]
    ELSE [queue |-> Tail(queue), lb |-> Head(queue), exists |-> TRUE]

\* largest capacity of the mailbox taken on its own
MaxBoxCap == 3
\* most records delivered to it
MaxBoxDeliveries == 5

\* a new mailbox; its records are numbered in the order of their delivery
NewMailbox ==
    /\ boxCap \in 1..MaxBoxCap
    /\ box = <<>>
    /\ boxLog = [delivered |-> 0, evicted |-> <<>>, retrieved |-> <<>>, over |-> <<>>]

\* no mailbox on its own
NoMailbox ==
    /\ boxCap = 1
    /\ box = <<>>
    /\ boxLog = [delivered |-> 0, evicted |-> <<>>, retrieved |-> <<>>, over |-> <<>>]

\* HandleLog's use of the mailbox: Deliver, and the overflow signal it returns
BoxDeliver ==
    /\ boxLog.delivered < MaxBoxDeliveries
    /\ LET lb == boxLog.delivered + 1
           d == DeliverAt(boxCap, box, lb)
       IN  /\ box' = d.queue
           /\ boxLog' = [boxLog EXCEPT !.delivered = lb,
                                       !.over = Append(@, d.wasOverCapacity),
                                       !.evicted = IF d.wasOverCapacity
                                                   THEN Append(@, d.dropped) ELSE @]
    /\ UNCHANGED <<boxCap, rawVars, cfVars, csVars, lsVars, soVars>>

\* processOracleEvents' use of the mailbox: Retrieve, when it finds a record
BoxRetrieve ==
    /\ LET r == Retrieve(box)
       IN  /\ r.exists
           /\ box' = r.queue
           /\ boxLog' = [boxLog EXCEPT !.retrieved = Append(@, r.lb)]
    /\ UNCHANGED <<boxCap, rawVars, cfVars, csVars, lsVars, soVars>>

-----------------------------------------------------------------------------
(* HandleLog *)

Delivered == LET Sum[S \in SUBSET Logs] ==
                    IF S = {} THEN 0
                    ELSE LET x == CHOOSE x \in S : TRUE
                         IN  hist.delivered[x] + Sum[S \ {x}]
             IN  Sum[Logs]

HandleLog(lb) ==
    /\ subscribed
    /\ ~mbClosed
    /\ Delivered < MaxDeliveries
    /\ IF lb.kind \in {"OracleRequest", "OracleResponse"}
       THEN LET d == Deliver(mbQueue, lb)
            IN  /\ mbQueue' = d.queue
                /\ mbNotify' = TRUE
                /\ hist' = [hist EXCEPT !.delivered = Bump(@, lb),
                                        !.evicted = IF d.wasOverCapacity
                                                    THEN Bump(@, d.dropped) ELSE @]
       ELSE /\ hist' = [hist EXCEPT !.delivered = Bump(@, lb)]
            /\ UNCHANGED <<mbQueue, mbNotify>>
    /\ UNCHANGED <<csVars, soVars, auxVars, lstate, pluginConfig, chStop, subscribed, mbClosed, wg, pcDispatch, cur,
                   pcSweeper, pcWaiter, tasks, consumed, requests, aged>>

-----------------------------------------------------------------------------
(* processOracleEvents *)

\* an outer select that has no case for chStop
DispatchStopNever == FALSE /\ UNCHANGED vars

\* outer select, case <-l.chStop
DispatchStop ==
    /\ pcDispatch = "select"
    /\ chStop
    /\ pcDispatch' = "done"
    /\ wg' = wg - 1
    /\ UNCHANGED <<csVars, soVars, auxVars, lstate, pluginConfig, chStop, subscribed, mbQueue, mbNotify, mbClosed,
                   cur, pcSweeper, pcWaiter, tasks, consumed, requests, aged, hist>>

\* outer select, case <-l.mbOracleEvents.Notify()
DispatchNotified ==
    /\ pcDispatch = "select"
    /\ mbNotify
    /\ mbNotify' = FALSE
    /\ pcDispatch' = "drain"
    /\ UNCHANGED <<csVars, soVars, auxVars, lstate, pluginConfig, chStop, subscribed, mbQueue, mbClosed, wg, cur,
                   pcSweeper, pcWaiter, tasks, consumed, requests, aged, hist>>

\* inner loop: the stop test, then Retrieve
DispatchRetrieve ==
    /\ pcDispatch = "drain"
    /\ IF chStop
       THEN /\ pcDispatch' = "done"
            /\ wg' = wg - 1
            /\ UNCHANGED <<mbQueue, cur, hist>>
       ELSE LET r == Retrieve(mbQueue)
            IN  /\ mbQueue' = r.queue
                /\ cur' = r.lb
                /\ pcDispatch' = IF r.exists THEN "check" ELSE "select"
                /\ hist' = IF r.exists THEN [hist EXCEPT !.retrieved = Bump(@, r.lb)] ELSE hist
                /\ wg' = wg
    /\ UNCHANGED <<csVars, soVars, auxVars, lstate, pluginConfig, chStop, subscribed, mbNotify, mbClosed, pcSweeper,
                   pcWaiter, tasks, consumed, requests, aged>>

\* a new goroutine for the record lb
Spawn(kind, lb) ==
    [tid |-> hist.spawned[lb] + 1, kind |-> kind, lb |-> lb,
     pc |-> IF kind = "handleOracleRequest" THEN "create" ELSE "confirm"]

\* a dispatcher that goes back to the outer select after one record
DispatchCheckLeavesTheLoop(wasErr) ==
    /\ pcDispatch = "check"
    /\ pcDispatch' = "select"
    /\ cur' = NoLog
    /\ IF wasErr
       THEN /\ hist' = [hist EXCEPT !.envFault = TRUE]
            /\ UNCHANGED <<tasks, wg>>
       ELSE IF cur \in consumed
       THEN /\ hist' = [hist EXCEPT !.skipped = Bump(@, cur)]
            /\ UNCHANGED <<tasks, wg>>
       ELSE /\ wg' = wg + 1
            /\ tasks' = tasks \cup
                  {Spawn(IF cur.kind = "OracleRequest" THEN "handleOracleRequest"
                         ELSE "handleOracleResponse", cur)}
            /\ hist' = [hist EXCEPT !.spawned = Bump(@, cur)]
    /\ UNCHANGED <<csVars, soVars, auxVars, lstate, pluginConfig, chStop, subscribed, mbQueue, mbNotify, mbClosed,
                   pcSweeper, pcWaiter, consumed, requests, aged>>

\* inner loop: WasAlreadyConsumed, then the type switch
DispatchCheck(wasErr) ==
    /\ pcDispatch = "check"
    /\ pcDispatch' = "drain"
    /\ cur' = NoLog
    /\ IF wasErr
       THEN /\ hist' = [hist EXCEPT !.envFault = TRUE]
            /\ UNCHANGED <<tasks, wg>>
       ELSE IF cur \in consumed
       THEN /\ hist' = [hist EXCEPT !.skipped = Bump(@, cur)]
            /\ UNCHANGED <<tasks, wg>>
       ELSE /\ wg' = wg + 1
            /\ tasks' = tasks \cup
                  {Spawn(IF cur.kind = "OracleRequest" THEN "handleOracleRequest"
                         ELSE "handleOracleResponse", cur)}
            /\ hist' = [hist EXCEPT !.spawned = Bump(@, cur)]
    /\ UNCHANGED <<csVars, soVars, auxVars, lstate, pluginConfig, chStop, subscribed, mbQueue, mbNotify, mbClosed,
                   pcSweeper, pcWaiter, consumed, requests, aged>>

-----------------------------------------------------------------------------
(* The plugin ORM's rows (the ORM lives in another file): a row is created *)
(* pending and leaves pending once.                                       *)

RequestStates == {"pending", "confirmed", "result-set", "error-set-internal",
                  "error-set-user", "timed-out"}

\* SetResult, SetError, SetConfirmed: the row moves out of pending
SetState(rows, req, state) ==
    IF req \in DOMAIN rows /\ rows[req] = "pending"
    THEN [rows EXCEPT ![req] = state]
    ELSE rows

\* CreateRequest: a new row, pending; an existing row is left as it is
CreateRequest(rows, req) ==
    IF req \in DOMAIN rows THEN rows
    ELSE [r \in (DOMAIN rows) \cup {req} |-> IF r = req THEN "pending" ELSE rows[r]]

\* a lookup that takes no account of the state of a request
ExpiredWhateverState == {r \in DOMAIN requests : r \in aged}

\* TimeoutExpiredResults: the pending rows received at or before the cutoff
Expired == {r \in DOMAIN requests : requests[r] = "pending" /\ r \in aged}

-----------------------------------------------------------------------------
(* handleOracleRequest, handleOracleResponse *)

\* defer l.shutdownWaitGroup.Done()
TaskEnds(t) ==
    /\ tasks' = tasks \ {t}
    /\ wg' = wg - 1

TaskMoves(t, pc) ==
    /\ tasks' = (tasks \ {t}) \cup {[t EXCEPT !.pc = pc]}
    /\ wg' = wg

\* a handler that runs the pipeline although CreateRequest failed
RequestCreateGoesOn(t, created) ==
    /\ t \in tasks
    /\ t.pc = "create"
    /\ requests' = IF created THEN CreateRequest(requests, t.lb.req) ELSE requests
    /\ hist' = IF created THEN [hist EXCEPT !.creates = Bump(@, t.lb)]
               ELSE IF t.lb.req \in DOMAIN requests
                    THEN hist ELSE [hist EXCEPT !.envFault = TRUE]
    /\ TaskMoves(t, "run")
    /\ UNCHANGED <<csVars, soVars, auxVars, lstate, pluginConfig, chStop, subscribed, mbQueue, mbNotify, mbClosed,
                   pcDispatch, cur, pcSweeper, pcWaiter, consumed, aged>>

\* l.pluginORM.CreateRequest; created: whether it returned nil. Whether a second
\* CreateRequest of the same request id succeeds is the ORM's choice.
RequestCreate(t, created) ==
    /\ t \in tasks
    /\ t.pc = "create"
    /\ IF created
       THEN /\ requests' = CreateRequest(requests, t.lb.req)
            /\ hist' = [hist EXCEPT !.creates = Bump(@, t.lb)]
            /\ TaskMoves(t, "run")
       ELSE /\ hist' = IF t.lb.req \in DOMAIN requests
                       THEN hist ELSE [hist EXCEPT !.envFault = TRUE]
            /\ TaskEnds(t)
            /\ UNCHANGED requests
    /\ UNCHANGED <<csVars, soVars, auxVars, lstate, pluginConfig, chStop, subscribed, mbQueue, mbNotify, mbClosed,
                   pcDispatch, cur, pcSweeper, pcWaiter, consumed, aged>>

\* markLogConsumed: an error of MarkConsumed is logged and dropped
markLogConsumed(lb, marked) == IF marked THEN consumed \cup {lb} ELSE consumed

\* a handler that goes on to the outputs although Run failed
RequestRunIgnoresFailure(t, ran, marked) ==
    /\ t \in tasks
    /\ t.pc = "run"
    /\ consumed' = IF ran THEN markLogConsumed(t.lb, marked) ELSE consumed
    /\ hist' = [hist EXCEPT !.runs = Bump(@, t.lb),
                            !.committed = IF ran THEN Bump(@, t.lb) ELSE @,
                            !.envFault = @ \/ ~ran \/ ~marked]
    /\ TaskMoves(t, "record")
    /\ UNCHANGED <<csVars, soVars, auxVars, lstate, pluginConfig, chStop, subscribed, mbQueue, mbNotify, mbClosed,
                   pcDispatch, cur, pcSweeper, pcWaiter, requests, aged>>

\* l.pipelineRunner.Run with the callback that marks the log consumed inside the
\* run's transaction; ran: whether Run returned nil
RequestRun(t, ran, marked) ==
    /\ t \in tasks
    /\ t.pc = "run"
    /\ IF ran
       THEN /\ consumed' = markLogConsumed(t.lb, marked)
            /\ hist' = [hist EXCEPT !.runs = Bump(@, t.lb),
                                    !.committed = Bump(@, t.lb),
                                    !.envFault = @ \/ ~marked]
            /\ TaskMoves(t, "record")
       ELSE /\ hist' = [hist EXCEPT !.runs = Bump(@, t.lb), !.envFault = TRUE]
            /\ TaskEnds(t)
            /\ UNCHANGED consumed
    /\ UNCHANGED <<csVars, soVars, auxVars, lstate, pluginConfig, chStop, subscribed, mbQueue, mbNotify, mbClosed,
                   pcDispatch, cur, pcSweeper, pcWaiter, requests, aged>>

\* What the two task outputs of the finished run look like: "missing" (the
\* lookup fails), "malformed" (ExtractRawBytes fails), "empty", "bytes".
OutputShapes == {"missing", "malformed", "empty", "bytes"}

\* what is wrong with the outputs, in the order the handler looks at them:
\* "missing", "malformed", or "" when both are found and well formed
Defect(result, error) ==
    CASE result \in {"missing", "malformed"} -> result
      [] error \in {"missing", "malformed"} -> error
      [] OTHER -> ""

\* a handler that records the result although the error output is not empty
RecordedPrefersResult(result, error) ==
    CASE result = "missing" -> "error-set-internal"
      [] result = "malformed" -> ""
      [] error = "missing" -> "error-set-internal"
      [] error = "malformed" -> ""
      [] OTHER -> "result-set"

\* the state the handler records for the outputs, "" when it records nothing
Recorded(result, error) ==
    CASE result = "missing" -> "error-set-internal"
      [] result = "malformed" -> ""
      [] error = "missing" -> "error-set-internal"
      [] error = "malformed" -> ""
      [] error = "bytes" -> "error-set-user"
      [] OTHER -> "result-set"

\* the rest of handleOracleRequest: the two lookups, SetError or SetResult;
\* saved: whether the ORM call returned nil
RequestRecord(t, result, error, saved) ==
    /\ t \in tasks
    /\ t.pc = "record"
    /\ requests' = IF Recorded(result, error) # "" /\ saved
                   THEN SetState(requests, t.lb.req, Recorded(result, error))
                   ELSE requests
    /\ hist' = [hist EXCEPT !.envFault = @ \/ ~saved \/ result \in {"missing", "malformed"}
                                            \/ error \in {"missing", "malformed"},
                            !.defect[t.lb] = Defect(result, error),
                            !.errorOut[t.lb] = IF Defect(result, error) = "" THEN error ELSE "",
                            !.unsaved = @ \/ (Recorded(result, error) # "" /\ ~saved)]
    /\ TaskEnds(t)
    /\ UNCHANGED <<csVars, soVars, auxVars, lstate, pluginConfig, chStop, subscribed, mbQueue, mbNotify, mbClosed,
                   pcDispatch, cur, pcSweeper, pcWaiter, consumed, aged>>

\* handleOracleResponse: SetConfirmed; saved: whether it returned nil
ResponseConfirm(t, saved) ==
    /\ t \in tasks
    /\ t.pc = "confirm"
    /\ requests' = IF saved THEN SetState(requests, t.lb.req, "confirmed") ELSE requests
    /\ hist' = [hist EXCEPT !.envFault = @ \/ ~saved, !.unsaved = @ \/ ~saved]
    /\ TaskEnds(t)
    /\ UNCHANGED <<csVars, soVars, auxVars, lstate, pluginConfig, chStop, subscribed, mbQueue, mbNotify, mbClosed,
                   pcDispatch, cur, pcSweeper, pcWaiter, consumed, aged>>

-----------------------------------------------------------------------------
(* timeoutRequests *)

\* a configuration test that only looks at the timeout
SweeperInitTimeoutOnly ==
    /\ pcSweeper = "init"
    /\ IF pluginConfig.timeoutSec = 0
       THEN pcSweeper' = "done" /\ wg' = wg - 1
       ELSE pcSweeper' = "wait" /\ wg' = wg
    /\ UNCHANGED <<csVars, soVars, auxVars, lstate, pluginConfig, chStop, subscribed, mbQueue, mbNotify, mbClosed,
                   pcDispatch, cur, pcWaiter, tasks, consumed, requests, aged, hist>>

\* the configuration test before the loop
SweeperInit ==
    /\ pcSweeper = "init"
    /\ IF pluginConfig.timeoutSec = 0 \/ pluginConfig.freqSec = 0 \/ pluginConfig.batchSize = 0
       THEN pcSweeper' = "done" /\ wg' = wg - 1
       ELSE pcSweeper' = "wait" /\ wg' = wg
    /\ UNCHANGED <<csVars, soVars, auxVars, lstate, pluginConfig, chStop, subscribed, mbQueue, mbNotify, mbClosed,
                   pcDispatch, cur, pcWaiter, tasks, consumed, requests, aged, hist>>

\* case <-l.chStop
SweeperStop ==
    /\ pcSweeper = "wait"
    /\ chStop
    /\ pcSweeper' = "done"
    /\ wg' = wg - 1
    /\ UNCHANGED <<csVars, soVars, auxVars, lstate, pluginConfig, chStop, subscribed, mbQueue, mbNotify, mbClosed,
                   pcDispatch, cur, pcWaiter, tasks, consumed, requests, aged, hist>>

\* case <-ticker.C: TimeoutExpiredResults(cutoff, batchSize) times out ids, or fails
SweeperTick(ids, swept) ==
    /\ pcSweeper = "wait"
    /\ ids \subseteq Expired
    /\ Cardinality(ids) = IF Cardinality(Expired) < pluginConfig.batchSize
                          THEN Cardinality(Expired) ELSE pluginConfig.batchSize
    /\ requests' = IF swept
                   THEN [r \in DOMAIN requests |-> IF r \in ids THEN "timed-out" ELSE requests[r]]
                   ELSE requests
    /\ UNCHANGED <<csVars, soVars, auxVars, lstate, pluginConfig, chStop, subscribed, mbQueue, mbNotify, mbClosed, wg,
                   pcDispatch, cur, pcSweeper, pcWaiter, tasks, consumed, aged, hist>>

\* time passes: the request r is now older than the timeout
Age(r) ==
    /\ r \in DOMAIN requests
    /\ r \notin aged
    /\ aged' = aged \cup {r}
    /\ UNCHANGED <<csVars, soVars, auxVars, lstate, pluginConfig, chStop, subscribed, mbQueue, mbNotify, mbClosed, wg,
                   pcDispatch, cur, pcSweeper, pcWaiter, tasks, consumed, requests, hist>>

\* largest batch size configured
MaxBatch == 2

\* the requests of the table the sweeper works on
SweepIDs == {1, 2}

\* each of the three settings zero or not, the batch size up to MaxBatch
SweepConfigs == [timeoutSec : {0, 1}, freqSec : {0, 1}, batchSize : 0..MaxBatch]

\* the tables the listener may find at construction: no request of them was
\* timed out yet
SweepTables == UNION {[S -> RequestStates \ {"timed-out"}] : S \in SUBSET SweepIDs}

-----------------------------------------------------------------------------
(* ExtractRawBytes. A byte string is a sequence of one-character strings,   *)
(* "q" standing for the double quote; decoded bytes are numbers 0..255.     *)

HexDigits == <<"0", "1", "2", "3", "4", "5", "6", "7", "8", "9",
               "a", "b", "c", "d", "e", "f">>

IsHex(c) == \E i \in 1..16 : HexDigits[i] = c

HexVal(c) == (CHOOSE i \in 1..16 : HexDigits[i] = c) - 1

\* hex.DecodeString of a string of even length
RECURSIVE DecodeString(_)
DecodeString(s) ==
    IF s = <<>> THEN [bytes |-> <<>>, err |-> FALSE]
    ELSE IF ~IsHex(s[1]) \/ ~IsHex(s[2]) THEN [bytes |-> <<>>, err |-> TRUE]
    ELSE LET rest == DecodeString(SubSeq(s, 3, Len(s)))
         IN  IF rest.err THEN rest
             ELSE [bytes |-> <<16 * HexVal(s[1]) + HexVal(s[2])>> \o rest.bytes, err |-> FALSE]

\* utils.TryParseHex: the 0x prefix is required; the digits after it are
\* decoded, an odd number of them after a 0 is put in front
TryParseHex(s) ==
    IF Len(s) < 2 \/ s[1] # "0" \/ s[2] # "x"
    THEN [bytes |-> <<>>, err |-> TRUE]
    ELSE LET digits == SubSeq(s, 3, Len(s))
         IN  DecodeString(IF Len(digits) % 2 = 1 THEN <<"0">> \o digits ELSE digits)

\* a decoder that does not look at the length of the content
ExtractRawBytesAnyLength(input) ==
    IF Len(input) < 2 \/ input[1] # "q" \/ input[Len(input)] # "q"
    THEN [bytes |-> <<>>, err |-> TRUE]
    ELSE LET content == SubSeq(input, 2, Len(input) - 1)
         IN  IF Len(content) = 0 THEN [bytes |-> <<>>, err |-> FALSE]
             ELSE TryParseHex(content)

ExtractRawBytes(input) ==
    IF Len(input) < 2 \/ input[1] # "q" \/ input[Len(input)] # "q"
    THEN [bytes |-> <<>>, err |-> TRUE]
    ELSE LET content == SubSeq(input, 2, Len(input) - 1)
         IN  IF Len(content) = 0 THEN [bytes |-> <<>>, err |-> FALSE]
             ELSE IF Len(content) < 4 \/ Len(content) % 2 # 0
             THEN [bytes |-> <<>>, err |-> TRUE]
             ELSE TryParseHex(content)

\* longest generated content
MaxContent == 5

\* the contents tried: every string of up to MaxContent characters over a small
\* alphabet, and three longer ones
Contents ==
    UNION {[1..n -> {"0", "x", "a", "g"}] : n \in 0..MaxContent}
        \cup {<<"0", "x", "a", "b">>, <<"0", "x", "a", "b", "c">>,
              <<"0", "x", "a", "b", "c", "d">>}

\* the inputs tried: a content with or without a quote on either side
RawInputs ==
    {(IF l THEN <<"q">> ELSE <<>>) \o c \o (IF r THEN <<"q">> ELSE <<>>) :
        l \in BOOLEAN, r \in BOOLEAN, c \in Contents}

NoCall == <<>>

\* an input, not yet decoded
ExtractInit == rawInput \in RawInputs /\ rawOutput = NoCall

\* no decoding on its own
NoExtract == rawInput = <<>> /\ rawOutput = NoCall

Extract ==
    /\ rawOutput = NoCall
    /\ rawOutput' = ExtractRawBytes(rawInput)
    /\ UNCHANGED <<rawInput, boxVars, cfVars, csVars, lsVars, soVars>>

-----------------------------------------------------------------------------
(* The listener: its construction and its steps *)

HandleLogOp == \E lb \in Logs : HandleLog(lb)

DispatchCheckOp == \E wasErr \in BOOLEAN : DispatchCheck(wasErr)

RequestCreateOp == \E t \in tasks, created \in BOOLEAN : RequestCreate(t, created)

RequestRunOp == \E t \in tasks, ran \in BOOLEAN, marked \in BOOLEAN : RequestRun(t, ran, marked)

RequestRecordOp ==
    \E t \in tasks, result \in OutputShapes, error \in OutputShapes, saved \in BOOLEAN :
        RequestRecord(t, result, error, saved)

ResponseConfirmOp == \E t \in tasks, saved \in BOOLEAN : ResponseConfirm(t, saved)

SweeperTickOp == \E ids \in SUBSET Expired, swept \in BOOLEAN : SweeperTick(ids, swept)

AgeOp == \E r \in RequestIDs : Age(r)

ListenerNext ==
    \/ DRListenerStart
    \/ DRListenerClose
    \/ DRListenerCloseReturn
    \/ WaiterUnsubscribe
    \/ HandleLogOp
    \/ DispatchStop
    \/ DispatchNotified
    \/ DispatchRetrieve
    \/ DispatchCheckOp
    \/ RequestCreateOp
    \/ RequestRunOp
    \/ RequestRecordOp
    \/ ResponseConfirmOp
    \/ SweeperInit
    \/ SweeperStop
    \/ SweeperTickOp
    \/ AgeOp

\* no chain set beside the listener
NoChainSet ==
    /\ csState = "absent"
    /\ chains = EmptyMap
    /\ defaultID = NilID
    /\ objs = <<>>
    /\ last = NoOp

\* nothing taken on its own
NoUnits == NoMailbox /\ NoExtract /\ NoCalls

ListenerInit == NewDRListener /\ NoChainSet /\ NewSendOnlyNode /\ NoUnits

SpecListener == ListenerInit /\ [][ListenerNext]_vars

\* every goroutine that can take a step takes one in the end, and Close goes
\* on once the wait group is at zero
SpecListenerLive ==
    /\ ListenerInit
    /\ [][ListenerNext]_vars
    /\ WF_vars(DispatchStop)
    /\ WF_vars(DispatchNotified)
    /\ WF_vars(DispatchRetrieve)
    /\ WF_vars(DispatchCheckOp)
    /\ WF_vars(SweeperInit)
    /\ SF_vars(SweeperStop)
    /\ WF_vars(WaiterUnsubscribe)
    /\ WF_vars(RequestCreateOp)
    /\ WF_vars(RequestRunOp)
    /\ WF_vars(RequestRecordOp)
    /\ WF_vars(ResponseConfirmOp)
    /\ WF_vars(DRListenerCloseReturn)

-----------------------------------------------------------------------------
(* The chain set: its construction and its operations *)

DBChains == [id : ChainIDs, nodes : NodeShapes]

LoadInputs == UNION {[1..n -> DBChains] : n \in 0..MaxLoad}

\* the chain set as loaded from one of the lists
ChainSetLoadedFrom(lists) ==
    \E evmDisabled \in BOOLEAN, dbchains \in lists, d \in ChainIDs \cup {NilID} :
        LET r == LoadChainSet(evmDisabled, dbchains)
        IN  /\ csState = r.cll
            /\ chains = r.chains
            /\ objs = r.objs
            /\ defaultID = IF r.cll = "map" THEN d ELSE NilID
            /\ last = [NoOp EXCEPT !.op = IF evmDisabled THEN "LoadChainSet" ELSE "NewChainSet",
                                   !.input = dbchains, !.err = r.err, !.made = r.made,
                                   !.res = IF r.err = NilErr THEN "ok" ELSE "err"]

ChainSetLoaded == ChainSetLoadedFrom(LoadInputs)

ConfigureOp == \E id \in ChainIDs, enabled \in BOOLEAN, env \in ConfigureEnvs :
                    Configure(id, enabled, env)

GetOp == \E id \in ChainIDs \cup {NilID} : GetCall(id)

ChainSetNext ==
    \/ ConfigureOp
    \/ GetOp
    \/ DefaultCall
    \/ ChainSetStart
    \/ ChainSetClose
    \/ ChainSetHealthy
    \/ ChainSetReady

\* a listener that is never started beside the chain set
NoListener == NewDRListener /\ pluginConfig.timeoutSec = 0

ChainSetInit == ChainSetLoaded /\ NoListener /\ NewSendOnlyNode /\ NoUnits

SpecChainSet == ChainSetInit /\ [][ChainSetNext]_vars

-----------------------------------------------------------------------------
(* The send-only node: its construction and its steps *)

NodeInit == NewSendOnlyNode /\ NoChainSet /\ NoListener /\ NoUnits

NodeNext ==
    \/ SendOnlyNodeStartOp
    \/ SendOnlyNodeClose
    \/ SendOnlyNodeClosed
    \/ VerifyTimer
    \/ VerifyStop
    \/ VerifyQueryOp

\* the timer fires and the query returns; a select with chStop closed and the
\* timer fired picks either case, so the chStop case is picked in the end
SpecNode ==
    /\ NodeInit
    /\ [][NodeNext]_vars
    /\ WF_vars(VerifyTimer)
    /\ WF_vars(VerifyQueryOp)
    /\ SF_vars(VerifyStop)
    /\ WF_vars(SendOnlyNodeClosed)

-----------------------------------------------------------------------------
(* The chain set with its default chain taken out and put back *)

\* chains constructed in these runs, the loaded ones included
MaxReconfigured == 3

\* the chain set is loaded from two configurations at most
ShortLoads == {l \in LoadInputs : Len(l) <= 2}

ReconfigureInit ==
    ChainSetLoadedFrom(ShortLoads) /\ NoListener /\ NewSendOnlyNode /\ NoUnits

ReconfigureOp == \E id \in ChainIDs, enabled \in BOOLEAN, env \in ConfigureEnvs :
                    ConfigureWithin(MaxReconfigured, id, enabled, env)

ReconfigureNext == ReconfigureOp \/ GetOp \/ DefaultCall

SpecReconfigure == ReconfigureInit /\ [][ReconfigureNext]_vars

-----------------------------------------------------------------------------
(* The chain set with Configure calls side by side *)

\* the calls start on a chain set loaded with one chain at most
RaceLoads == {l \in LoadInputs : Len(l) <= 1}

RaceInit == ChainSetLoadedFrom(RaceLoads) /\ NoCalls /\ NoMailbox /\ NoExtract /\ NoListener /\ NewSendOnlyNode

\* the answers that matter before the switch, and from the switch on
BeginEnvs == {EnvOf(f) : f \in {"none", "UpdateChain", "NodesForChain"}}

SwitchEnvs == {EnvOf(f) : f \in {"none", "noprimary", "bad", "Start", "Close"}}

ConfigureBeginOp == \E c \in Callers, id \in ChainIDs, enabled \in BOOLEAN, env \in BeginEnvs :
                        ConfigureBegin(c, id, enabled, env)

ConfigureFinishOp == \E c \in Callers, env \in SwitchEnvs : ConfigureFinish(c, env)

RaceNext == ConfigureBeginOp \/ ConfigureFinishOp

SpecConfigureRace == RaceInit /\ [][RaceNext]_vars

-----------------------------------------------------------------------------
(* The sweeper with a table of requests *)

SweepInit == NewDRListenerOver(SweepConfigs, SweepTables) /\ NoChainSet /\ NewSendOnlyNode /\ NoUnits

SweepAgeOp == \E r \in SweepIDs : Age(r)

\* a tick whose lookup succeeds
SweeperTickDone == \E ids \in SUBSET Expired : SweeperTick(ids, TRUE)

SweepNext ==
    \/ DRListenerStart
    \/ DRListenerClose
    \/ DRListenerCloseReturn
    \/ WaiterUnsubscribe
    \/ DispatchStop
    \/ SweeperInit
    \/ SweeperStop
    \/ SweeperTickOp
    \/ SweepAgeOp

\* every goroutine is scheduled, the ticker keeps firing and the lookup
\* succeeds again and again
SpecSweep ==
    /\ SweepInit
    /\ [][SweepNext]_vars
    /\ WF_vars(DispatchStop)
    /\ WF_vars(SweeperInit)
    /\ WF_vars(SweeperStop)
    /\ WF_vars(SweeperTickDone)
    /\ WF_vars(WaiterUnsubscribe)
    /\ WF_vars(DRListenerCloseReturn)

-----------------------------------------------------------------------------
(* The mailbox and the decoder on their own *)

MailboxInit == NewMailbox /\ NoExtract /\ NoCalls /\ NoChainSet /\ NoListener /\ NewSendOnlyNode

MailboxNext == BoxDeliver \/ BoxRetrieve

SpecMailbox == MailboxInit /\ [][MailboxNext]_vars

DecodeInit == ExtractInit /\ NoMailbox /\ NoCalls /\ NoChainSet /\ NoListener /\ NewSendOnlyNode

DecodeNext == Extract

SpecExtract == DecodeInit /\ [][DecodeNext]_vars

-----------------------------------------------------------------------------
(* Properties of the chain set *)

\* how many times the call c occurs in a sequence of chain calls
Occurrences(calls, c) == Cardinality({i \in 1..Len(calls) : calls[i] = c})

\* the last operation was Configure(id, true, cfg) for an id absent from the registry
EnabledAbsent == last.op = "Configure" /\ last.enabled /\ last.pre = NilChain

\* the last operation was Configure(id, false, cfg) for a registered id
DisabledPresent == last.op = "Configure" /\ ~last.enabled /\ last.pre # NilChain

\* the last Configure returned the error of UpdateChain or NodesForChain
PersistenceFailed ==
    /\ last.op = "Configure"
    /\ last.err # NilErr
    /\ last.err[1][1] \in {"UpdateChain", "NodesForChain"}

\* exactly one chain was constructed, started and inserted under id's string form
OneChainInserted ==
    /\ Len(objs) = Len(last.heap) + 1
    /\ last.made = <<Len(objs)>>
    /\ LET h == Len(objs)
       IN  /\ objs[h].id = last.id
           /\ objs[h].started
           /\ Occurrences(last.calls, <<"Start", h>>) = 1
           /\ csState = "map"
           /\ chains = MapPut(last.before, BigString(last.id), h)
           /\ Get(last.id) = [chain |-> h, err |-> NilErr]

\* C2 as stated: from a chain set in which id is absent, Configure(id, true, cfg)
\* constructs exactly one Chain, starts it and inserts it under id's string form,
\* and Get(id) then returns that Chain.
C2_Original == EnabledAbsent => OneChainInserted

\* C2 amended: from a chain set in which id is absent, a Configure(id, true, cfg)
\* that returns without error has constructed exactly one Chain, started it and
\* inserted it under id's string form, and Get(id) then returns that Chain.
C2_EnableInsertsOneStartedChain ==
    (EnabledAbsent /\ last.res = "ok") => OneChainInserted

C2_Witness ==
    /\ EnabledAbsent
    /\ last.res = "ok"
    /\ DOMAIN last.before # {}
    /\ Lookup(last.id).chain = Len(objs)

\* id is gone from the registry, Get(id) fails with NotFound, and the chain that
\* was registered had Close invoked exactly once
RemovedAndClosedOnce ==
    /\ BigString(last.id) \notin DOMAIN chains
    /\ chains = MapDelete(last.before, BigString(last.id))
    /\ Get(last.id) = [chain |-> NilChain, err |-> Err("NotFound", last.id)]
    /\ Occurrences(last.calls, <<"Close", last.pre>>) = 1
    /\ Len(last.calls) = 1
    /\ objs[last.pre].closed

\* C3 as stated: from a chain set in which id is registered, Configure(id, false,
\* cfg) removes id from the registry (Get(id) then fails with NotFound) and
\* invokes Close on the removed Chain exactly once.
C3_Original == DisabledPresent => RemovedAndClosedOnce

\* C3 amended: from a chain set in which id is registered, a Configure(id, false,
\* cfg) whose persistence update and node lookup succeed removes id from the
\* registry (Get(id) then fails with NotFound) and invokes Close on the removed
\* Chain exactly once, whether or not that Close returns an error.
C3_DisableRemovesAndClosesOnce ==
    (DisabledPresent /\ ~PersistenceFailed) => RemovedAndClosedOnce

C3_Witness ==
    /\ DisabledPresent
    /\ ~PersistenceFailed
    /\ last.res = "err"
    /\ DOMAIN chains # {}
    /\ objs[last.pre].closed

\* C4: when Configure(id, true, cfg) is called for an absent id and the
\* construction reports NoPrimaryNode, Configure neither fails nor faults, and
\* the chain is absent from the registry with nothing started.
C4_NoPrimaryNodeIsOnlyAWarning ==
    (EnabledAbsent /\ csState = "map" /\ last.ctorErr = ErrNoPrimaryNode) =>
        /\ last.res = "ok"
        /\ last.calls = <<>>
        /\ Lookup(last.id).chain = NilChain

\* C5: every key of the registry is the string form of the identifier of the
\* Chain stored under it, and no two registered Chains share an identifier.
C5_KeysAreIdentifierStrings ==
    /\ \A k \in DOMAIN chains :
          /\ chains[k] \in 1..Len(objs)
          /\ k = BigString(objs[chains[k]].id)
    /\ \A k1, k2 \in DOMAIN chains :
          objs[chains[k1]].id = objs[chains[k2]].id => k1 = k2

C5_Witness ==
    /\ last.op = "Configure"
    /\ last.res = "ok"
    /\ last.made # <<>>
    /\ last.id >= 10
    /\ Cardinality(DOMAIN chains) = 2

\* C6: Get(id) of a registered id returns the Chain whose identifier has id's
\* string form; Get(id) of an id that is not registered fails with NotFound and
\* returns no Chain.
C6_GetFindsExactlyTheRegistered ==
    (last.op = "Get" /\ last.id # NilID) =>
        IF \E h \in Chains : objs[h].id = last.id
        THEN /\ last.err = NilErr
             /\ last.chain \in Chains
             /\ BigString(objs[last.chain].id) = BigString(last.id)
        ELSE /\ last.err = Err("NotFound", last.id)
             /\ last.chain = NilChain

C6_Witness ==
    /\ last.op = "Get"
    /\ last.id # NilID
    /\ last.chain # NilChain
    /\ Cardinality(Chains) = 2

\* C7: Default() fails with NoChains whenever the registry is empty, whether or
\* not a default identifier is configured; fails with NoDefault when the
\* registry is not empty and no default identifier is configured; and otherwise
\* returns what Get(defaultID) returns.
C7_DefaultErrors ==
    last.op = "Default" =>
        IF Chains = {}
        THEN last.err = ErrNoChains /\ last.chain = NilChain
        ELSE IF defaultID = NilID
        THEN last.err = ErrNoDefault /\ last.chain = NilChain
        ELSE [chain |-> last.chain, err |-> last.err] = Get(defaultID)

C7_Witness ==
    /\ last.op = "Default"
    /\ csState = "map"
    /\ Chains = {}
    /\ defaultID # NilID
    /\ last.err = ErrNoChains

\* C8: a Configure whose UpdateChain or NodesForChain fails returns that error
\* and leaves the registry and every Chain as they were, nothing constructed,
\* started or closed; and a Configure that changed anything in memory had
\* written the persisted configuration first.
C8_PersistenceFirst ==
    /\ PersistenceFailed =>
          /\ last.res = "err"
          /\ chains = last.before
          /\ objs = last.heap
          /\ last.calls = <<>>
          /\ last.stored = (last.err[1][1] = "NodesForChain")
    /\ (last.op = "Configure" /\ (chains # last.before \/ objs # last.heap)) =>
          last.stored

C8_Witness ==
    /\ PersistenceFailed
    /\ last.err = Err("NodesForChain", last.id)
    /\ last.pre # NilChain
    /\ ~last.enabled
    /\ Lookup(last.id).chain = last.pre

\* C9: Start, Close, Healthy and Ready each invoke the operation on every
\* registered Chain exactly once, also when some Chain returns an error; the
\* aggregate error is empty exactly when every Chain's operation succeeded, and
\* otherwise contains the error of every failing Chain.
C9_LifecycleReachesEveryChain ==
    last.op \in {"Start", "Close", "Healthy", "Ready"} =>
        /\ \A h \in Chains : Occurrences(last.calls, <<last.op, h>>) = 1
        /\ Len(last.calls) = Cardinality(Chains)
        /\ (last.err = NilErr) <=> (last.failed = {})
        /\ \A h \in last.failed : Occurrences(last.err, <<last.op, h>>) = 1
        /\ Len(last.err) = Cardinality(last.failed)

C9_Witness ==
    /\ last.op = "Close"
    /\ Cardinality(Chains) = 2
    /\ Cardinality(last.failed) = 1
    /\ last.calls[1][2] \in last.failed
    /\ Len(last.calls) = 2

\* the entries of the loaded list that were constructed
Constructed(input) == {i \in 1..Len(input) : input[i].nodes = "primary"}

\* the chain of entry i is registered under its identifier's string form
Loaded(input, i) ==
    /\ csState = "map"
    /\ BigString(input[i].id) \in DOMAIN chains
    /\ objs[chains[BigString(input[i].id)]].id = input[i].id

\* what C10 says of a load of the list input
SkipsAndAggregates(input) ==
    \A i \in 1..Len(input) :
        CASE input[i].nodes = "noprimary" ->
                \* skipped: no error from it, no chain for it, the others loaded
                /\ \A j \in 1..Len(last.err) : last.err[j][1] # "ErrNoPrimaryNode"
                /\ (\A j \in Constructed(input) : input[j].id # input[i].id)
                      => \A h \in Chains : objs[h].id # input[i].id
                /\ \A j \in Constructed(input) : Loaded(input, j)
          [] input[i].nodes = "bad" ->
                \* reported, and the rest of the list still constructed
                /\ Occurrences(last.err, <<"newChain", input[i].id>>) >= 1
                /\ \A j \in Constructed(input) : j > i => Loaded(input, j)
          [] OTHER -> TRUE

\* the load met two constructed chains with the same identifier
DuplicateAbort ==
    \E i, j \in Constructed(last.input) : i # j /\ last.input[i].id = last.input[j].id

\* C10 as stated: in a load, a chain whose construction fails with NoPrimaryNode
\* is skipped and contributes no error while every other chain is loaded; every
\* other construction failure is in the aggregate error the load returns, and
\* the remaining chains are still constructed.
C10_Original == last.op = "NewChainSet" => SkipsAndAggregates(last.input)

\* C10 amended: the same, unless the load aborts on two constructed chains with
\* the same identifier (it then returns the duplicate-chain error alone).
C10_LoadSkipsNoPrimaryAggregatesOthers ==
    (last.op = "NewChainSet" /\ ~DuplicateAbort) => SkipsAndAggregates(last.input)

C10_Witness ==
    /\ last.op = "NewChainSet"
    /\ Len(last.input) = 3
    /\ last.input[1].nodes = "bad"
    /\ last.input[2].nodes = "noprimary"
    /\ last.input[3].nodes = "primary"
    /\ last.input[2].id # last.input[3].id
    /\ Cardinality(Chains) = 1
    /\ Len(last.err) = 1

\* the load returned no chain set and the duplicate-chain error alone
DuplicateFatal ==
    /\ csState = "absent"
    /\ chains = EmptyMap
    /\ \E id \in ChainIDs : last.err = Err("duplicate", id)

\* two entries of the loaded list have the same identifier
DuplicateEntries ==
    \E i, j \in 1..Len(last.input) : i # j /\ last.input[i].id = last.input[j].id

\* C11 as stated: a load of a list in which two entries have the same network
\* identifier fails with the duplicate-chain error and yields no chain set,
\* wherever the two entries are in the list.
C11_Original == (last.op = "NewChainSet" /\ DuplicateEntries) => DuplicateFatal

\* C11 amended: a load fails with the duplicate-chain error and yields no chain
\* set exactly when two entries of the same network identifier are both
\* constructed, wherever the two entries are in the list; an entry whose
\* construction fails is never compared with the registry.
C11_DuplicateConstructedIsFatal ==
    last.op = "NewChainSet" => (DuplicateAbort <=> DuplicateFatal)

\* the duplicates are the first and the last of three entries
C11_Witness ==
    /\ last.op = "NewChainSet"
    /\ Len(last.input) = 3
    /\ last.input[1].id = last.input[3].id
    /\ last.input[2].id # last.input[1].id
    /\ Constructed(last.input) = {1, 2, 3}
    /\ DuplicateFatal

-----------------------------------------------------------------------------
(* Properties of the send-only node *)

\* C12: once the node's state is Closed it never changes again, whatever the
\* verify loop and Close do and however they interleave.
C12_ClosedIsTerminal == [][nodeState = "Closed" => nodeState' = "Closed"]_vars

\* the node is Closed while the verify loop is still inside a query
C12_Witness == nodeState = "Closed" /\ pcVerify = "query"

\* the last query reported the expected identity and the node was started
VerifiedWhileStarted == nodeHist.reported = "match" /\ nodeHist.wasStarted

\* C13: when the verify loop sees the expected identity while the node is
\* started it sets Alive and returns; from then on it makes no query and no
\* state change, so the state stays Alive until Close makes it Closed.
C13_AliveExitsForGood ==
    /\ [](VerifiedWhileStarted => (pcVerify = "done" /\ nodeState \in {"Alive", "Closed"}))
    /\ [][VerifiedWhileStarted =>
            (/\ nodeHist' = nodeHist
             /\ pcVerify' = "done"
             /\ nodeState' \in {nodeState, "Closed"})]_vars

\* Alive was reached by the loop after it had set InvalidChainID
C13_Witness ==
    /\ VerifiedWhileStarted
    /\ nodeState = "Alive"
    /\ nodeHist.invalids >= 1

\* the step in which a query of the verify loop returns
QueryReturns(reported) ==
    /\ pcVerify = "query"
    /\ pcVerify' # "query"
    /\ nodeHist'.reported = reported

\* C14: when a query reports another identity than the expected one, the loop
\* sets InvalidChainID and retries if the node is started; if the node is not
\* started it returns and leaves the state as it was.
C14_MismatchGuardedByStarted ==
    [][QueryReturns("mismatch") =>
          IF nodeLife = "started"
          THEN nodeState' = "InvalidChainID" /\ pcVerify' = "select"
          ELSE nodeState' = nodeState /\ pcVerify' = "done"]_vars

\* a mismatch was seen while started, and the last one after the node left
\* started: the loop has returned
C14_Witness ==
    /\ nodeHist.reported = "mismatch"
    /\ ~nodeHist.wasStarted
    /\ nodeHist.invalids >= 1
    /\ pcVerify = "done"

\* C15: a started node that is never stopped and whose endpoint reports the
\* expected identity after finitely many errors and mismatches is set to
\* InvalidChainID at each mismatch, reaches Alive in the end, and its verify
\* loop has then returned for good.
C15_EventuallyAlive ==
    /\ [][(QueryReturns("mismatch") /\ nodeLife = "started")
             => nodeState' = "InvalidChainID"]_vars
    /\ (([]~nodeChStop) /\ <>(pcVerify = "select"))
          => <>[](nodeState = "Alive" /\ pcVerify = "done")

\* Alive after MaxFaults failed queries, errors and mismatches among them
C15_Witness ==
    /\ ~nodeChStop
    /\ nodeState = "Alive"
    /\ pcVerify = "done"
    /\ nodeHist.faults = MaxFaults
    /\ nodeHist.invalids >= 1
    /\ nodeHist.invalids < nodeHist.faults

\* C16: once chStop is closed the verify loop returns, wherever in an iteration
\* it was, and it does not change the state any more: the only change left is
\* Close setting Closed.
C16_StopEndsTheLoop ==
    /\ [][nodeChStop =>
            \/ nodeState' = nodeState
            \/ (nodeLife = "stopping" /\ nodeState' = "Closed" /\ pcVerify' = pcVerify)]_vars
    /\ nodeChStop ~> (pcVerify \in {"off", "done"})

\* chStop was closed during a query; the query failed, the loop went back to
\* the select and returned
C16_Witness ==
    /\ nodeChStop
    /\ pcVerify = "done"
    /\ nodeHist.reported = "err"
    /\ ~nodeHist.wasStarted

-----------------------------------------------------------------------------
(* Properties of Configure calls *)

\* every chain whose Start succeeded is in the registry or has had Close
\* called on it (of a chain set that has its map: without the map the insert
\* faults and the call does not return)
NoneOrphaned ==
    csState = "map" =>
        \A o \in 1..Len(objs) : objs[o].started => (o \in Chains \/ objs[o].closed)

\* no two calls in flight are for the same identifier
NoOverlap ==
    \A c, d \in Callers :
        (c # d /\ inflight[c] # Idle /\ inflight[d] # Idle) => inflight[c].id # inflight[d].id

C30_RegistryAgreesWithPersisted ==
    (last.op = "Configure" /\ last.stored /\ last.res # "panic") =>
        (Lookup(last.id).chain # NilChain <=> last.enabled)

-----------------------------------------------------------------------------
(* Properties of the mailbox *)

Last(q) == q[Len(q)]

\* the step in which a record is delivered
Delivers == boxLog'.delivered = boxLog.delivered + 1

\* C24: the mailbox never holds more than its capacity; a Deliver to a full
\* mailbox drops the oldest record and only that one, keeps the new one and
\* signals overflow; a Deliver to a mailbox that is not full drops nothing and
\* signals nothing.
C24_OverwriteOldestAtCapacity ==
    /\ [](Len(box) <= boxCap)
    /\ [][Delivers =>
            IF Len(box) = boxCap
            THEN /\ box' = Append(Tail(box), boxLog'.delivered)
                 /\ boxLog'.evicted = Append(boxLog.evicted, Head(box))
                 /\ Last(boxLog'.over) = TRUE
            ELSE /\ box' = Append(box, boxLog'.delivered)
                 /\ boxLog'.evicted = boxLog.evicted
                 /\ Last(boxLog'.over) = FALSE]_vars

\* a full mailbox of capacity 2 has taken a third record
C24_Witness ==
    /\ boxCap = 2
    /\ boxLog.delivered = 3
    /\ boxLog.evicted = <<1>>
    /\ box = <<2, 3>>

\* the records delivered so far that were not evicted, in delivery order
RECURSIVE Kept(_)
Kept(n) ==
    IF n = 0 THEN <<>>
    ELSE IF \E i \in 1..Len(boxLog.evicted) : boxLog.evicted[i] = n
         THEN Kept(n - 1) ELSE Append(Kept(n - 1), n)

\* C25: however Deliver and Retrieve interleave, what was retrieved, followed
\* by what the mailbox holds, is what was delivered in the order of delivery
\* without the evicted records; with capacity 3 and four records delivered
\* before any is retrieved, the records retrieved are the second, third and
\* fourth, and the overflow signal was raised at the fourth delivery only.
C25_FifoWithoutTheEvicted ==
    /\ boxLog.retrieved \o box = Kept(boxLog.delivered)
    /\ (boxCap = 3 /\ boxLog.delivered = 4 /\ boxLog.evicted = <<1>>) =>
          /\ boxLog.retrieved \o box = <<2, 3, 4>>
          /\ boxLog.over = <<FALSE, FALSE, FALSE, TRUE>>

\* capacity 3, four records delivered, three retrieved
C25_Witness ==
    /\ boxCap = 3
    /\ boxLog.delivered = 4
    /\ boxLog.over = <<FALSE, FALSE, FALSE, TRUE>>
    /\ boxLog.retrieved = <<2, 3, 4>>

-----------------------------------------------------------------------------
(* Properties of ExtractRawBytes *)

Quoted(content) == <<"q">> \o content \o <<"q">>

Decoded(bytes) == [bytes |-> bytes, err |-> FALSE]

\* the call was made and returned an error
DecodeError == rawOutput # NoCall /\ rawOutput.err

\* what holds of every decoding, "0xab" left aside
DecodesAsDocumented ==
    /\ rawInput = Quoted(<<>>) => rawOutput = Decoded(<<>>)
    /\ rawInput = Quoted(<<"0", "x", "a", "b", "c", "d">>) => rawOutput = Decoded(<<171, 205>>)
    /\ (Len(rawInput) < 2 \/ rawInput[1] # "q" \/ Last(rawInput) # "q") => DecodeError

\* C28 as stated: "" decodes to no bytes, "0xabcd" to AB CD, "0xab" is a
\* decode error, and an input without the quotes is a decode error.
C28_Original ==
    rawOutput # NoCall =>
        /\ DecodesAsDocumented
        /\ rawInput = Quoted(<<"0", "x", "a", "b">>) => DecodeError

\* C28 amended: "" decodes to no bytes, "0xabcd" to AB CD, "0xab" to the one
\* byte AB; a quoted content of odd length or of fewer than four characters
\* (and not empty) is a decode error, and so is an input without the quotes.
C28_DecodesQuotedHex ==
    rawOutput # NoCall =>
        /\ DecodesAsDocumented
        /\ rawInput = Quoted(<<"0", "x", "a", "b">>) => rawOutput = Decoded(<<171>>)
        /\ (\E c \in Contents : rawInput = Quoted(c) /\ c # <<>>
                                 /\ (Len(c) < 4 \/ Len(c) % 2 = 1)) => DecodeError

\* "0xab" was decoded
C28_Witness ==
    /\ rawInput = Quoted(<<"0", "x", "a", "b">>)
    /\ rawOutput = Decoded(<<171>>)

-----------------------------------------------------------------------------
(* Properties of the listener *)

\* nothing is left to do: the dispatcher waits on an empty mailbox with no
\* notification pending, no handler runs, and the listener was not closed
Quiescent ==
    /\ lstate = "started"
    /\ pcDispatch = "select"
    /\ ~mbNotify
    /\ mbQueue = <<>>
    /\ tasks = {}

\* C1: when the same OracleRequest log was delivered twice by HandleLog, in any
\* interleaving with the dispatcher and the handlers, and every collaborator call
\* succeeded, the outcome is exactly one pipeline Run and one persisted Request,
\* the second delivery having been skipped by the WasAlreadyConsumed check.
C1_RedeliveryRunsOnce ==
    \A lb \in Logs :
        (/\ lb.kind = "OracleRequest"
         /\ hist.delivered[lb] = 2
         /\ hist.evicted[lb] = 0
         /\ ~hist.envFault
         /\ Quiescent) =>
            /\ hist.runs[lb] = 1
            /\ lb.req \in DOMAIN requests
            /\ hist.skipped[lb] = 1
            /\ hist.spawned[lb] = 1

\* the three goroutines of Start have returned and no handler runs
AllFinished ==
    /\ pcDispatch = "done"
    /\ pcSweeper = "done"
    /\ pcWaiter = "done"
    /\ tasks = {}
    /\ wg = 0

\* C17: when Close has returned, the dispatcher, the sweeper, the unsubscribe
\* goroutine and every handler ever spawned have finished; the mailbox is closed
\* only after that, and no handler is spawned or runs afterwards.
C17_CloseWaitsForEveryTask ==
    /\ []((lstate = "stopped" \/ mbClosed) => AllFinished)
    /\ [][lstate = "stopped" => (tasks' = {} /\ hist'.spawned = hist.spawned)]_vars

\* Close has returned after two handlers had been spawned
C17_Witness ==
    /\ lstate = "stopped"
    /\ mbClosed
    /\ \E lb \in Logs : hist.spawned[lb] = 2

\* C18: once chStop is closed, the dispatcher, the sweeper and the unsubscribe
\* goroutine each return, wherever they were, and Close returns once the
\* handlers in flight have finished.
C18_StopTerminatesEveryLoop ==
    /\ chStop ~> (pcDispatch = "done")
    /\ chStop ~> (pcSweeper = "done")
    /\ chStop ~> (pcWaiter = "done")
    /\ chStop ~> (lstate = "stopped")

\* Close has returned; the sweeper had been in its loop, and a record was still
\* in the mailbox when the dispatcher returned
C18_Witness ==
    /\ lstate = "stopped"
    /\ pluginConfig.timeoutSec > 0
    /\ pcSweeper = "done"
    /\ mbQueue # <<>>

\* C19: the log of a request is marked consumed exactly when a pipeline run
\* for it has committed: never committed and not consumed, never consumed
\* without a committed run.
C19_ConsumedIffCommitted ==
    \A lb \in Logs : (lb \in consumed) <=> (hist.committed[lb] > 0)

\* C20: after a pipeline run that succeeded, when one of the two outputs is not
\* found or is malformed and no ORM write failed, the handler has recorded the
\* node-internal exception: the request is not left pending.
C20_DefectIsRecorded ==
    \A lb \in Logs :
        (hist.defect[lb] # "" /\ ~hist.unsaved) =>
            /\ lb.req \in DOMAIN requests
            /\ requests[lb.req] # "pending"

\* the step in which the handler t leaves the position pc
Leaves(t, pc) == t \in tasks /\ t.pc = pc /\ t \notin tasks'

\* C21: after a run that succeeded, with both outputs found and well formed,
\* the handler records one outcome on the pending request: the user exception
\* when the decoded error output is not empty, the result otherwise.
C21_OneOutcomeRecorded ==
    [][\A t \in tasks :
          (/\ Leaves(t, "record")
           /\ hist'.defect[t.lb] = ""
           /\ ~hist'.unsaved
           /\ t.lb.req \in DOMAIN requests
           /\ requests[t.lb.req] = "pending") =>
              requests'[t.lb.req] = IF hist'.errorOut[t.lb] = "bytes"
                                    THEN "error-set-user" ELSE "result-set"]_vars

\* a user exception was recorded for a request whose error output had bytes
C21_Witness ==
    \E lb \in Logs :
        /\ hist.errorOut[lb] = "bytes"
        /\ ~hist.unsaved
        /\ lb.req \in DOMAIN requests
        /\ requests[lb.req] = "error-set-user"

\* the step in which Run fails for the handler t
RunFails(t) ==
    /\ Leaves(t, "run")
    /\ hist'.runs[t.lb] = hist.runs[t.lb] + 1
    /\ hist'.committed[t.lb] = hist.committed[t.lb]

\* C22: when the pipeline run fails the handler ends there: it writes nothing
\* to the request, which stays as it was (pending, and so still open to the
\* timeout sweep), and the log is not marked consumed.
C22_FailedRunLeavesRequestPending ==
    [][\A t \in tasks :
          RunFails(t) =>
              /\ tasks' = tasks \ {t}
              /\ requests' = requests
              /\ consumed' = consumed]_vars

\* after a failed run the request was still pending and the sweep timed it out
C22_Witness ==
    \E lb \in Logs :
        /\ hist.runs[lb] = 1
        /\ hist.committed[lb] = 0
        /\ tasks = {}
        /\ lb.req \in DOMAIN requests
        /\ requests[lb.req] = "timed-out"

\* the step in which CreateRequest fails for the handler t
CreateFails(t) ==
    /\ Leaves(t, "create")
    /\ hist'.creates[t.lb] = hist.creates[t.lb]

\* C23: when CreateRequest fails the handler ends there: the pipeline is not
\* run, the log is not marked consumed, nothing is recorded for the request.
C23_FailedCreateAborts ==
    [][\A t \in tasks :
          CreateFails(t) =>
              /\ tasks' = tasks \ {t}
              /\ hist'.runs = hist.runs
              /\ requests' = requests
              /\ consumed' = consumed]_vars

\* the only handler ever spawned failed to create the row and is gone
C23_Witness ==
    \E lb \in Logs :
        /\ hist.spawned[lb] = 1
        /\ hist.creates[lb] = 0
        /\ hist.runs[lb] = 0
        /\ tasks = {}
        /\ pcDispatch = "select"
        /\ requests = [r \in {} |-> "pending"]
        /\ consumed = {}

-----------------------------------------------------------------------------
(* Properties of the sweeper *)

StateOf(r) == IF r \in DOMAIN requests THEN requests[r] ELSE "absent"

\* the requests a step changes
Marked == {r \in DOMAIN requests : requests'[r] # requests[r]}

\* C26: the sweep only moves requests from pending to timed-out: a request in
\* another state is never changed whatever its age, a tick marks at most
\* batchSize requests, each of them pending and aged; and a pending aged
\* request is timed out by a later tick unless the listener is stopped first.
C26_SweepOnlyTimesOutPending ==
    /\ [][/\ DOMAIN requests' = DOMAIN requests
          /\ \A r \in Marked : /\ requests[r] = "pending"
                                /\ r \in aged
                                /\ requests'[r] = "timed-out"
          /\ Cardinality(Marked) <= pluginConfig.batchSize]_vars
    /\ \A r \in SweepIDs :
          (StateOf(r) = "pending" /\ r \in aged /\ pcSweeper = "wait")
              ~> (StateOf(r) = "timed-out" \/ chStop)

\* with batch size 1, one of two aged pending requests is timed out and the
\* other is still pending
C26_Witness ==
    /\ pluginConfig.batchSize = 1
    /\ aged = {1, 2}
    /\ DOMAIN requests = {1, 2}
    /\ requests[1] = "timed-out"
    /\ requests[2] = "pending"
    /\ ~chStop

SweeperDisabled ==
    pluginConfig.timeoutSec = 0 \/ pluginConfig.freqSec = 0 \/ pluginConfig.batchSize = 0

\* C27: with any of the three settings zero the sweeper never enters its loop,
\* so it makes no lookup and changes no request; its first step ends it and
\* releases the wait group, it does end, and a Close that was called returns.
C27_DisabledSweeperDoesNothing ==
    /\ [](SweeperDisabled => pcSweeper \in {"off", "init", "done"})
    /\ [][SweeperDisabled => requests' = requests]_vars
    /\ [][SweeperDisabled /\ pcSweeper = "init" /\ pcSweeper' # "init"
            => pcSweeper' = "done" /\ wg' = wg - 1 /\ chStop' = chStop]_vars
    /\ (SweeperDisabled /\ pcSweeper = "init") ~> (pcSweeper = "done")
    /\ (SweeperDisabled /\ lstate = "stopping") ~> (lstate = "stopped")

\* only the batch size is zero, the sweeper is done and Close was not called,
\* with an aged pending request in the table
C27_Witness ==
    /\ pluginConfig = [timeoutSec |-> 1, freqSec |-> 1, batchSize |-> 0]
    /\ pcSweeper = "done"
    /\ lstate = "started"
    /\ \E r \in aged : requests[r] = "pending"

-----------------------------------------------------------------------------
(* Properties of the response handler and of the dispatcher's wake-ups *)

\* the handlers of the record lb that have run to their end
Finished(lb) == hist.spawned[lb] - Cardinality({t \in tasks : t.lb = lb})

\* C31: an OracleResponse log that was handed to handleOracleResponse is
\* marked consumed once its handler has ended, and SetConfirmed is called at
\* most once for it, a redelivery being skipped by the dispatcher.
C31_ResponseLogConsumedOnce ==
    \A lb \in Logs :
        (lb.kind = "OracleResponse" /\ ~hist.envFault) =>
            /\ Finished(lb) >= 1 => lb \in consumed
            /\ Finished(lb) <= 1

\* the records of lb the mailbox holds
InMailbox(lb) == hist.delivered[lb] - hist.evicted[lb] - hist.retrieved[lb]

\* C32: no wake-up is lost: a record that HandleLog put into the mailbox and
\* that is not evicted is retrieved by the dispatcher in the end, unless the
\* stop signal is raised, also when it arrives while the dispatcher drains.
C32_NoLostWakeUp ==
    \A lb \in Logs :
        (lb.kind # "Other" /\ InMailbox(lb) > 0) ~> (InMailbox(lb) = 0 \/ chStop)

\* a record arrived while the dispatcher was draining, and was retrieved: the
\* notification is up again and the mailbox is empty
C32_Witness ==
    /\ pcDispatch = "check"
    /\ mbNotify
    /\ mbQueue = <<>>
    /\ \E lb \in Logs : hist.retrieved[lb] = 2
    /\ ~chStop

-----------------------------------------------------------------------------
(* Properties of a chain set without its map, and of the default chain *)

\* the last call was a Configure that enabled an absent identifier, and every
\* collaborator call in it succeeded
EnabledWithoutFailure ==
    /\ EnabledAbsent
    /\ last.stored
    /\ last.ctorErr = NilErr
    /\ last.err = NilErr

\* C33: on the chain set LoadChainSet returns when EVM is disabled, ChainCount
\* is 0, Default fails with NoChains, Get(id) fails with NotFound, and
\* Configure(id, true, cfg) constructs, starts and registers the chain without
\* a fault.
C33_DisabledChainSetIsUsable ==
    csState = "nil" =>
        /\ ChainCount = 0
        /\ Default = [chain |-> NilChain, err |-> ErrNoChains]
        /\ \A id \in ChainIDs : Get(id) = [chain |-> NilChain, err |-> Err("NotFound", id)]
        /\ EnabledWithoutFailure => (last.res = "ok" /\ OneChainInserted)

NotFoundDefault == [chain |-> NilChain, err |-> Err("NotFound", defaultID)]

\* C34: while the default chain is not registered and other chains are,
\* Default() and Get(nil) fail with the NotFound error for defaultID, neither
\* with NoChains nor with NoDefault; once it is registered (again) they return
\* the chain registered for it.
C34_DefaultFollowsTheRegistry ==
    (csState = "map" /\ defaultID # NilID /\ ChainCount > 0) =>
        /\ Get(NilID) = Default
        /\ IF BigString(defaultID) \in DOMAIN chains
           THEN Default = [chain |-> chains[BigString(defaultID)], err |-> NilErr]
           ELSE Default = NotFoundDefault
        /\ (last.op = "Default" /\ BigString(defaultID) \notin DOMAIN chains)
              => (last.err = NotFoundDefault.err /\ last.chain = NilChain)

\* the default chain was taken out by a Configure while another chain stayed,
\* and was put back by the Configure that just returned: Default() finds the
\* new chain
C34_Witness ==
    /\ last.op = "Configure" /\ last.id = defaultID /\ last.enabled /\ last.res = "ok"
    /\ DOMAIN last.before # {}
    /\ \E o \in 1..Len(objs) : objs[o].id = defaultID /\ objs[o].closed
    /\ Default = [chain |-> Len(objs), err |-> NilErr]
    /\ ~objs[Len(objs)].closed

====
